---- MODULE Spec2Model ----
(***************************************************************************)
(* ContactVerifier: the file-backed runner (check_contact.py) and the      *)
(* relational runner (check_contact_with_sql.py) verifying, record by      *)
(* record, whether a name, a phone number and a job title appear on a web  *)
(* page.  Strings are sequences of one-character strings; an absent value  *)
(* (Python None) is the sentinel None.                                     *)
(***************************************************************************)
EXTENDS Integers, Sequences, FiniteSets, TLC

\* ---------------------------------------------------------------- bounds
NumRecords == 2        \* rows of the spreadsheet
MaxCount   == 3        \* history counters saturate here

MaxTextLen  == 4       \* longest page text handed to find_name on its own
MaxPhoneLen == 6       \* longest phone handed to format_phone_number on its own
MaxChunks   == 3       \* pieces of a page handed to extract_phone_numbers on its own
MaxRestarts == 2       \* new starts of the program that are counted

\* ------------------------------------------------------ program constants
save_interval == 30    \* check_contact.py: save every 30 records
LoadAttempts  == 2     \* range(2) of the load loop
MinPhoneLen   == 8     \* extract_phone_numbers keeps len(num) > 8

\* ---------------------------------------------------------------- strings
None == <<"<None>">>

Digits == {"0", "1", "2", "3", "4", "5", "6", "7", "8", "9"}
Seps   == {" ", ".", "-"}
Upper  == [J |-> "j", L |-> "l", V |-> "v", O |-> "o", P |-> "p"]

LowerChar(c) == IF c \in DOMAIN Upper THEN Upper[c] ELSE c

\* str.lower()
Lower(s) == [i \in 1..Len(s) |-> LowerChar(s[i])]

\* Python's  s in t
IsSub(s, t) == \E i \in 0..(Len(t) - Len(s)) : SubSeq(t, i + 1, i + Len(s)) = s

\* str.count: non-overlapping occurrences of s in t, scanning from position i
RECURSIVE CountFrom(_, _, _)
CountFrom(s, t, i) ==
    IF i + Len(s) - 1 > Len(t) THEN 0
    ELSE IF SubSeq(t, i, i + Len(s) - 1) = s
         THEN 1 + CountFrom(s, t, IF Len(s) = 0 THEN i + 1 ELSE i + Len(s))
         ELSE CountFrom(s, t, i + 1)

Count(s, t) == CountFrom(s, t, 1)

\* str.split(): the whitespace-separated tokens of s, in order
RECURSIVE SplitFrom(_, _, _)
SplitFrom(s, i, tok) ==
    IF i > Len(s) THEN (IF tok = <<>> THEN <<>> ELSE <<tok>>)
    ELSE IF s[i] = " "
         THEN (IF tok = <<>> THEN <<>> ELSE <<tok>>) \o SplitFrom(s, i + 1, <<>>)
         ELSE SplitFrom(s, i + 1, Append(tok, s[i]))

Split(s) == SplitFrom(s, 1, <<>>)

\* re.sub(r'[^\d]', '', s)
RECURSIVE OnlyDigits(_)
OnlyDigits(s) ==
    IF s = <<>> THEN <<>>
    ELSE (IF Head(s) \in Digits THEN <<Head(s)>> ELSE <<>>) \o OnlyDigits(Tail(s))

\* ', '.join(list)
RECURSIVE Join(_)
Join(l) ==
    IF l = <<>> THEN <<>>
    ELSE IF Len(l) = 1 THEN l[1]
    ELSE l[1] \o <<",", " ">> \o Join(Tail(l))

\* ------------------------------------------------- format_phone_number
\* a normalizer that removes the country code wherever it repeats at the front
format_phone_number_twice(phone) ==
    IF phone = None \/ phone = <<>> THEN <<>>
    ELSE LET d == OnlyDigits(phone)
             c == <<"3", "5", "8">>
         IN  IF Len(d) >= 6 /\ SubSeq(d, 1, 6) = c \o c THEN SubSeq(d, 7, Len(d))
             ELSE IF Len(d) >= 3 /\ SubSeq(d, 1, 3) = c THEN SubSeq(d, 4, Len(d))
             ELSE d

format_phone_number(phone) ==
    IF phone = None \/ phone = <<>> THEN <<>>
    ELSE LET d == OnlyDigits(phone)
         IN  IF Len(d) >= 3 /\ SubSeq(d, 1, 3) = <<"3", "5", "8">>
             THEN SubSeq(d, 4, Len(d))
             ELSE d

\* ------------------------------------------------ extract_phone_numbers
\* The pattern, element by element:
\*   \+? \(? \d{1,4} \)? [\s\.-]? \(? \d{1,4} \)? [\s\.-]? \d{1,4} [\s\.-]? \d{1,4}
PatLen == 12

OptChars(k) ==
    CASE k = 1 -> {"+"}
      [] k = 2 -> {"("}
      [] k = 4 -> {")"}
      [] k = 5 -> Seps
      [] k = 6 -> {"("}
      [] k = 8 -> {")"}
      [] k = 9 -> Seps
      [] k = 11 -> Seps
      [] OTHER -> {}

IsDigitGroup(k) == k \in {3, 7, 10, 12}

AllDigits(t, p, n) == p + n - 1 <= Len(t) /\ \A j \in p..(p + n - 1) : t[j] \in Digits

\* Position after the first match, in backtracking order, of pattern elements
\* k..PatLen against t from position p; 0 when there is none.
RECURSIVE MatchEnd(_, _, _)
MatchEnd(t, k, p) ==
    IF k > PatLen THEN p
    ELSE IF IsDigitGroup(k)
    THEN LET ok(n) == AllDigits(t, p, n) /\ MatchEnd(t, k + 1, p + n) # 0
         IN  IF ok(4) THEN MatchEnd(t, k + 1, p + 4)
             ELSE IF ok(3) THEN MatchEnd(t, k + 1, p + 3)
             ELSE IF ok(2) THEN MatchEnd(t, k + 1, p + 2)
             ELSE IF ok(1) THEN MatchEnd(t, k + 1, p + 1)
             ELSE 0
    ELSE IF p <= Len(t) /\ t[p] \in OptChars(k) /\ MatchEnd(t, k + 1, p + 1) # 0
         THEN MatchEnd(t, k + 1, p + 1)
         ELSE MatchEnd(t, k + 1, p)

\* re.findall: leftmost non-overlapping matches
RECURSIVE FindAll(_, _)
FindAll(t, p) ==
    IF p > Len(t) THEN <<>>
    ELSE LET e == MatchEnd(t, 1, p)
         IN  IF e = 0 THEN FindAll(t, p + 1)
             ELSE <<SubSeq(t, p, e - 1)>> \o FindAll(t, e)

\* an extraction that keeps the matches of exactly 8 digits too
extract_phone_numbers_keep8(content) ==
    LET phone_numbers == FindAll(content, 1)
        normalized    == [i \in 1..Len(phone_numbers) |-> OnlyDigits(phone_numbers[i])]
    IN  SelectSeq(normalized, LAMBDA num : Len(num) >= MinPhoneLen)

extract_phone_numbers(content) ==
    LET phone_numbers == FindAll(content, 1)
        normalized    == [i \in 1..Len(phone_numbers) |-> OnlyDigits(phone_numbers[i])]
    IN  SelectSeq(normalized, LAMBDA num : Len(num) > MinPhoneLen)

\* --------------------------------------------------------------- find_name
\* find_name without its repeated-mention rule
find_name_no_repeat(page_text, first_name, last_name) ==
    LET first_name_lower == Lower(first_name)
        last_name_lower  == Lower(last_name)
        full_name        == first_name_lower \o <<" ">> \o last_name_lower
    IN  \/ IsSub(full_name, page_text)
        \/ IsSub(first_name_lower, page_text) /\ IsSub(last_name_lower, page_text)

\* page_text is already lowercased by the caller
find_name(page_text, first_name, last_name) ==
    LET first_name_lower == Lower(first_name)
        last_name_lower  == Lower(last_name)
        full_name        == first_name_lower \o <<" ">> \o last_name_lower
    IN  \/ IsSub(full_name, page_text)
        \/ IsSub(first_name_lower, page_text) /\ IsSub(last_name_lower, page_text)
        \/ Count(first_name_lower, page_text) > 1
        \/ Count(last_name_lower, page_text) > 1

\* check_image_and_text's comparison on the recognised text
ocr_name_found(extracted_text, first_name, last_name) ==
    /\ IsSub(Lower(first_name), Lower(extracted_text))
    /\ IsSub(Lower(last_name), Lower(extracted_text))

\* check_job_title_on_page's two matches; page_text is lowercased, the exact
\* match uses job_title as given
title_on_page(page_text, job_title) ==
    \/ IsSub(job_title, page_text)
    \/ LET words == Split(Lower(job_title))
       IN  \A i \in 1..Len(words) : IsSub(words[i], page_text)

\* a translate_page that compares with the translated text as it is returned
title_in_translation_raw(page_text, job_title) == IsSub(Lower(job_title), page_text)

\* translate_page's comparison
title_in_translation(page_text, job_title) == IsSub(Lower(job_title), Lower(page_text))

\* a phone decision without the test that the normalized phone is non-empty
phone_on_page_any(formatted_phone, extracted_phones) ==
    IsSub(formatted_phone, Join(extracted_phones))

\* run's phone decision
phone_on_page(formatted_phone, extracted_phones) ==
    formatted_phone # <<>> /\ IsSub(formatted_phone, Join(extracted_phones))

\* ------------------------------------------------------------------ inputs
Jo       == <<"J", "o">>
Li       == <<"L", "i">>
RawPhone == <<"+", "3", "5", "8", "4", "0", "1", "2", "3", "4", "5", "6", "7">>
Title    == <<"V", "p", " ", "O", "p", "s">>

\* the rows a spreadsheet may hold (read_excel / read_excel_and_store turn an
\* empty cell into None)
RecordSet ==
    { [first_name |-> Jo,   last_name |-> Li,   phone |-> RawPhone, job_title |-> Title],
      [first_name |-> None, last_name |-> None, phone |-> RawPhone, job_title |-> Title],
      [first_name |-> Jo,   last_name |-> Li,   phone |-> RawPhone, job_title |-> None],
      [first_name |-> Jo,   last_name |-> Li,   phone |-> None,     job_title |-> Title] }

TName  == <<"j", "o", " ", "l", "i">>
TFull  == <<"J", "o", " ", "L", "i", " ", "O", "p", "s", " ", "V", "p", " ",
            "0", "4", "0", " ", "1", "2", "3", " ", "4", "5", "6", "7">>
TTrans == <<"v", "p", " ", "o", "p", "s">>

TCaps  == <<"V", "p", " ", "O", "p", "s">>

\* what page.content() or the OCR engine may return
PageTexts == {TName, TFull, TTrans}

\* what the translated page may show
TranslatedTexts == PageTexts \cup {TCaps}

Rows == 1..NumRecords

Blank          == [kind |-> "blank", rec |-> 0]
TranslateUrl(i) == [kind |-> "translate", rec |-> i]

ErrorText == "After 2 attempts, did not reach website."

Bump(n) == IF n < MaxCount THEN n + 1 ELSE n

\* a file runner that writes the answers the wrong way round
YesNo_swapped(b) == IF b THEN "No" ELSE "Yes"

YesNo(b) == IF b THEN "Yes" ELSE "No"

\* ------------------------------------------------------------------- state
VARIABLES
    runner,           \* "file": check_contact.py, "sql": check_contact_with_sql.py
    records,          \* the spreadsheet rows
    pc,               \* position of the run
    cur,              \* file: count of the enumerate loop; sql: processing_row['id'], 0 for None
    attempt,          \* load attempts made in this pass
    success,          \* run's success flag
    formatted_phone,  \* run's formatted_phone
    pageUrl,          \* what the shared page handle shows
    page_text,        \* the content last read from the page in this pass
    found,            \* sql: presence_of_fullname, presence_of_phone, presence_of_job_title
    data,             \* file: self.data, the presence columns of each entry
    outputFile,       \* file: Resources/data/output.xlsx
    db,               \* sql: the contacts table
    navLog,           \* history: outcomes of page.goto(url) for the current record
    passes,           \* history: verification passes started for the current record
    loadFailed,       \* history: both load attempts of the current record failed
    raisedAt,         \* history: where this pass raised an unexpected exception
    ops,              \* history: page operations of the name check in progress
    seen,             \* history: the texts attempt 1, attempt 2 and OCR of that name check got
    name_result,      \* history: "none" or the value check_name_on_page returned
    doneRecs,         \* history: records whose pass ran to the end of the loop body
    translations,     \* history: translated pages requested for the current record
    call,             \* a single function under test and its arguments, NoCall in a run
    ret,              \* what that function returned
    web,              \* the fixed behaviour of the site when it is static, NoWeb otherwise
    dbFile,           \* sql: the database file: exists, has the contacts table, rows in it
    todo,             \* file: the row ids of self.data, in order
    restarts,         \* times the program was started again, counted up to MaxRestarts
    kept              \* history: rows read_excel skipped as filled at the last start

vars == <<runner, records, pc, cur, attempt, success, formatted_phone, pageUrl,
          page_text, found, data, outputFile, db, navLog, passes, loadFailed,
          raisedAt, ops, seen, name_result, doneRecs, translations, call, ret, web,
          dbFile, todo, restarts, kept>>

local    == <<attempt, success, formatted_phone, found>>
storage  == <<data, outputFile, db>>
perRec   == <<navLog, passes, loadFailed, translations>>
perPass  == <<raisedAt, ops, seen, name_result>>
fixed    == <<runner, records, call, ret, web, dbFile, todo, restarts, kept>>

\* a load that leaves the handle on the translated page when it shows one
SourceUrl_stale(i) ==
    IF pageUrl.kind = "translate" THEN pageUrl ELSE [kind |-> "source", rec |-> i]

\* page.goto(url): the handle shows the source page of record i
SourceUrl(i) == [kind |-> "source", rec |-> i]

Failed   == <<"<Failed>">>      \* the screenshot or the OCR engine raised
NotSeen  == [a1 |-> None, a2 |-> None, ocr |-> None, phone |-> None, title |-> None,
             trans |-> None]
NoCall   == [fn |-> "none"]
NoRet    == "pending"
NoWeb    == [static |-> FALSE]
NoDb      == [exists |-> FALSE, table |-> FALSE, rows |-> 0]
Populated == [exists |-> TRUE, table |-> TRUE, rows |-> NumRecords]
AllRows   == [i \in 1..NumRecords |-> i]

\* the database file once DB.initialize_db_if_needed has run to its end
Stored == IF runner = "sql" THEN Populated ELSE NoDb
NotFound == [name |-> FALSE, phone |-> FALSE, title |-> FALSE]
Unset    == [name |-> "unset", phone |-> "unset", title |-> "unset"]

\* the memory, the page and the files before a run has done anything
Boot ==
    /\ cur = 0
    /\ attempt = 0
    /\ success = FALSE
    /\ formatted_phone = <<>>
    /\ pageUrl = Blank
    /\ page_text = <<>>
    /\ found = NotFound
    /\ data = [i \in Rows |-> Unset]
    /\ outputFile = [exists |-> FALSE, rows |-> <<>>]
    /\ db = [i \in Rows |-> [name |-> FALSE, phone |-> FALSE, title |-> FALSE,
                             status |-> "not_processed", error |-> "NULL"]]
    /\ navLog = <<>>
    /\ passes = 0
    /\ loadFailed = FALSE
    /\ raisedAt = "none"
    /\ ops = <<>>
    /\ seen = NotSeen
    /\ name_result = "none"
    /\ doneRecs = {}
    /\ translations = 0
    /\ todo = AllRows
    /\ restarts = 0
    /\ kept = {}

Init ==
    /\ runner \in {"file", "sql"}
    /\ records \in [Rows -> RecordSet]
    /\ pc = IF runner = "file" THEN "f_loop" ELSE "s_get"
    /\ Boot
    /\ dbFile = Stored
    /\ call = NoCall
    /\ ret = NoRet
    /\ web = NoWeb

\* ----------------------------------------------------------------- helpers
\* where an exception raised inside run's try block lands
Handler == IF runner = "file" THEN "f_except" ELSE "s_except"

Raise(site) ==
    /\ pc' = Handler
    /\ raisedAt' = site

\* where run goes once the three values of a record are computed
Persist == IF runner = "file" THEN "f_save_check" ELSE "s_w_name"

\* file: entry[...] = "Yes"/"No"; sql: the local presence_of_... variable
RecordResult(field, b) ==
    IF runner = "file"
    THEN /\ data' = [data EXCEPT ![cur][field] = YesNo(b)]
         /\ UNCHANGED found
    ELSE /\ found' = [found EXCEPT ![field] = b]
         /\ UNCHANGED data

\* pd.DataFrame(self.data).to_excel(output_file): the entries of self.data
\* replace whatever the file held
save_results_to_excel ==
    outputFile' = [exists |-> TRUE,
                   rows   |-> [i \in {todo[k] : k \in 1..Len(todo)} |-> data[i]]]

\* the count of the enumerate loop: the position of the current entry in self.data
count == IF cur = 0 THEN 0 ELSE CHOOSE k \in 1..Len(todo) : todo[k] = cur

\* a run that goes on to the phone and title checks whatever the name check said
ChecksAfterName_always(name_present) == TRUE

\* run: phone and title are checked only when the name was found
ChecksAfterName(name_present) == name_present

\* a name check that takes its screenshot right after the first failed attempt
AfterFailedAttempt_noRetry(n) == "name_ocr"

\* check_name_on_page: what follows a text attempt that did not find the name
AfterFailedAttempt(n) == IF n = 1 THEN "name_wait" ELSE "name_ocr"

\* a name check that ignores what check_image_and_text found
name_exists_ignored(image_found) == FALSE

\* check_name_on_page: the last return hands on check_image_and_text's value
name_exists(image_found) == image_found

\* a check_image_and_text that lets the failure reach run's handler
OcrExcept_reraise == Handler

\* check_image_and_text: both except clauses return False to the caller
OcrExcept == "name_ret"

\* a translate_page that lets the failure reach run's handler
TranslateExcept_reraise == Handler

\* translate_page: the bare except sets job_title_found = False and the
\* function returns it to run
TranslateExcept == Persist

\* a run that asks for the translated page whatever the title check found
AfterTitleCheck_always(title_found) == "translate"

\* run: the translated page is tried only when the title was not found
AfterTitleCheck(title_found) == IF title_found THEN Persist ELSE "translate"

\* A pass starts: the locals of the previous pass are dead (each is assigned
\* before it is read), so they and the per-pass history start afresh.
StartPass(i, fresh) ==
    /\ formatted_phone' = format_phone_number(records[i].phone)
    /\ success' = FALSE
    /\ attempt' = 0
    /\ found' = NotFound
    /\ page_text' = <<>>
    /\ passes' = Bump(IF fresh THEN 0 ELSE passes)
    /\ navLog' = IF fresh THEN <<>> ELSE navLog
    /\ loadFailed' = IF fresh THEN FALSE ELSE loadFailed
    /\ translations' = IF fresh THEN 0 ELSE translations
    /\ raisedAt' = "none"
    /\ ops' = <<>>
    /\ seen' = NotSeen
    /\ name_result' = "none"
    /\ pc' = "goto"

\* ------------------------------------------------- check_contact.py: run
\* the head of the for loop and the statements before the load loop
FileNextEntry ==
    /\ runner = "file" /\ pc = "f_loop"
    /\ IF count < Len(todo)
       THEN /\ cur' = todo[count + 1]
            /\ data' = [data EXCEPT ![todo[count + 1]] =
                          [name |-> "No", phone |-> "No", title |-> "No"]]
            /\ StartPass(todo[count + 1], TRUE)
       ELSE /\ pc' = "f_finally"
            /\ UNCHANGED <<cur, data, local, page_text, perRec, perPass>>
    /\ UNCHANGED <<fixed, pageUrl, outputFile, db, doneRecs>>

\* one page.goto(url) of the load loop, and the branch on success after it
LoadPage(ok) ==
    /\ pc = "goto"
    /\ navLog' = IF Len(navLog) < MaxCount THEN Append(navLog, ok) ELSE navLog
    /\ IF ok
       THEN /\ success' = TRUE
            /\ pageUrl' = SourceUrl(cur)
            /\ pc' = "name_read1"
            /\ UNCHANGED <<attempt, loadFailed, doneRecs>>
       ELSE /\ attempt' = attempt + 1
            /\ UNCHANGED <<success, pageUrl>>
            /\ IF attempt + 1 < LoadAttempts
               THEN /\ pc' = "goto"
                    /\ UNCHANGED <<loadFailed, doneRecs>>
               ELSE /\ loadFailed' = TRUE
                    /\ IF runner = "file"
                       THEN /\ pc' = "f_loop"            \* continue
                            /\ doneRecs' = doneRecs \cup {cur}
                       ELSE /\ pc' = "s_err_status"
                            /\ UNCHANGED doneRecs
    /\ UNCHANGED <<fixed, cur, formatted_phone, page_text, found, storage,
                   passes, translations, perPass>>

\* check_name_on_page: a text attempt (find_name); n is 1 or 2
NameAttempt(n, ok, text) ==
    /\ pc = (IF n = 1 THEN "name_read1" ELSE "name_read2")
    /\ ops' = Append(ops, "read")
    /\ IF ~ok
       THEN /\ Raise("name")
            /\ UNCHANGED <<page_text, seen, name_result>>
       ELSE /\ page_text' = text
            /\ seen' = IF n = 1 THEN [seen EXCEPT !.a1 = text] ELSE [seen EXCEPT !.a2 = text]
            /\ IF records[cur].first_name = None \/ records[cur].last_name = None
               THEN /\ Raise("name")        \* None.lower()
                    /\ UNCHANGED name_result
               ELSE LET f == find_name(Lower(text), records[cur].first_name,
                                       records[cur].last_name)
                    IN  /\ name_result' = IF f THEN "true" ELSE name_result
                        /\ pc' = IF f THEN "name_ret" ELSE AfterFailedAttempt(n)
                        /\ UNCHANGED raisedAt
    /\ UNCHANGED <<fixed, cur, local, pageUrl, storage, perRec, doneRecs>>

\* page.wait_for_timeout(3000)
NameWait(ok) ==
    /\ pc = "name_wait"
    /\ ops' = Append(ops, "wait")
    /\ IF ok THEN pc' = "name_reload" /\ UNCHANGED raisedAt ELSE Raise("name")
    /\ UNCHANGED <<fixed, cur, local, pageUrl, page_text, storage, perRec, seen,
                   name_result, doneRecs>>

\* page.reload(wait_until="domcontentloaded")
NameReload(ok) ==
    /\ pc = "name_reload"
    /\ ops' = Append(ops, "reload")
    /\ IF ok THEN pc' = "name_read2" /\ UNCHANGED raisedAt ELSE Raise("name")
    /\ UNCHANGED <<fixed, cur, local, pageUrl, page_text, storage, perRec, seen,
                   name_result, doneRecs>>

\* check_image_and_text: screenshot and OCR inside its try block
CheckImageAndText(ok, text) ==
    /\ pc = "name_ocr"
    /\ ops' = Append(ops, "screenshot")
    /\ seen' = [seen EXCEPT !.ocr = IF ok THEN text ELSE Failed]
    /\ LET image_found == ok /\ ocr_name_found(text, records[cur].first_name,
                                               records[cur].last_name)
       IN  name_result' = IF name_exists(image_found) THEN "true" ELSE "false"
    /\ pc' = IF ok THEN "name_ret" ELSE OcrExcept
    /\ UNCHANGED <<fixed, cur, local, pageUrl, page_text, storage, perRec, raisedAt,
                   doneRecs>>

\* run: the value of check_name_on_page is recorded and branched on
NameReturned ==
    /\ pc = "name_ret"
    /\ LET present == (name_result = "true")
       IN  IF ChecksAfterName(present)
           THEN /\ RecordResult("name", present)
                /\ pc' = "phone"
           ELSE /\ IF runner = "file"
                   THEN /\ data' = [data EXCEPT ![cur] =
                                      [name |-> "No", phone |-> "No", title |-> "No"]]
                        /\ UNCHANGED found
                   ELSE /\ found' = NotFound
                        /\ UNCHANGED data
                /\ pc' = Persist
    /\ ops' = <<>>                  \* the name check is over: its history is dropped,
    /\ seen' = [NotSeen EXCEPT      \* but for a failure of the OCR fallback
                  !.ocr = IF seen.ocr = Failed THEN Failed ELSE None]
    /\ UNCHANGED <<fixed, cur, attempt, success, formatted_phone, pageUrl, page_text,
                   outputFile, db, perRec, raisedAt, name_result, doneRecs>>

\* extract_phone_numbers and run's phone decision
ExtractPhones(ok, text) ==
    /\ pc = "phone"
    /\ IF ~ok
       THEN /\ Raise("phone")
            /\ UNCHANGED <<page_text, data, found, seen>>
       ELSE /\ page_text' = text
            /\ seen' = [seen EXCEPT !.phone = text]
            /\ RecordResult("phone", phone_on_page(formatted_phone, extract_phone_numbers(text)))
            /\ pc' = "title"
            /\ UNCHANGED raisedAt
    /\ UNCHANGED <<fixed, cur, attempt, success, formatted_phone, pageUrl,
                   outputFile, db, perRec, ops, name_result, doneRecs>>

\* check_job_title_on_page (its wait and its read) and run's branch on it
CheckJobTitle(ok, text) ==
    /\ pc = "title"
    /\ IF ~ok
       THEN /\ Raise("title")
            /\ UNCHANGED <<page_text, data, found, seen>>
       ELSE /\ page_text' = text
            /\ seen' = [seen EXCEPT !.title = text]
            /\ IF records[cur].job_title = None
               THEN /\ Raise("title")       \* None in page_text
                    /\ UNCHANGED <<data, found>>
               ELSE LET t == title_on_page(Lower(text), records[cur].job_title)
                    IN  /\ RecordResult("title", t)
                        /\ pc' = AfterTitleCheck(t)
                        /\ UNCHANGED raisedAt
    /\ UNCHANGED <<fixed, cur, attempt, success, formatted_phone, pageUrl,
                   outputFile, db, perRec, ops, name_result, doneRecs>>

\* translate_page, all of it inside its try block
TranslatePage(gotoOk, ok, text) ==
    /\ pc = "translate"
    /\ pageUrl' = IF gotoOk THEN TranslateUrl(cur) ELSE pageUrl
    /\ page_text' = IF gotoOk /\ ok THEN text ELSE page_text
    /\ seen' = [seen EXCEPT !.trans = IF gotoOk /\ ok THEN text ELSE Failed]
    /\ translations' = Bump(translations)
    /\ RecordResult("title", gotoOk /\ ok /\ title_in_translation(text, records[cur].job_title))
    /\ pc' = IF gotoOk /\ ok THEN Persist ELSE TranslateExcept
    /\ UNCHANGED <<fixed, cur, attempt, success, formatted_phone, outputFile, db,
                   navLog, passes, loadFailed, raisedAt, ops, name_result, doneRecs>>

\* the periodic save at the end of an iteration
FileSaveCheck ==
    /\ runner = "file" /\ pc = "f_save_check"
    /\ IF count % save_interval = 0 THEN save_results_to_excel ELSE UNCHANGED outputFile
    /\ doneRecs' = doneRecs \cup {cur}
    /\ pc' = "f_loop"
    /\ UNCHANGED <<fixed, cur, local, pageUrl, page_text, data, db, perRec, perPass>>

\* except Exception around the whole loop
FileExcept ==
    /\ runner = "file" /\ pc = "f_except"
    /\ save_results_to_excel
    /\ pc' = "f_finally"
    /\ UNCHANGED <<fixed, cur, local, pageUrl, page_text, data, db, perRec, perPass,
                   doneRecs>>

FileFinally ==
    /\ runner = "file" /\ pc = "f_finally"
    /\ save_results_to_excel
    /\ pc' = "done"
    /\ UNCHANGED <<fixed, cur, local, pageUrl, page_text, data, db, perRec, perPass,
                   doneRecs>>

\* --------------------------------------- check_contact_with_sql.py: run
NotProcessed == {i \in Rows : i <= dbFile.rows /\ db[i].status = "not_processed"}

\* DB.get_first_not_processed: the lowest id with status not_processed, 0 for None
get_first_not_processed ==
    IF NotProcessed = {} THEN 0
    ELSE CHOOSE i \in NotProcessed : \A j \in NotProcessed : i <= j

\* DB.update_status_by_id(row_id, row, status)
update_status_by_id(row_id, row, status) ==
    db' = [db EXCEPT ![row_id][row] = status]

\* processing_row = DB.get_first_not_processed(), before the loop and at the
\* end of its body
SqlGetFirst ==
    /\ runner = "sql" /\ pc = "s_get"
    /\ IF dbFile.table
       THEN /\ cur' = get_first_not_processed
            /\ IF get_first_not_processed # cur
               THEN navLog' = <<>> /\ passes' = 0 /\ loadFailed' = FALSE /\ translations' = 0
               ELSE UNCHANGED perRec
            /\ pc' = "s_while"
       ELSE /\ pc' = "crashed"       \* sqlite3.OperationalError: no such table
            /\ UNCHANGED <<cur, perRec>>
    /\ UNCHANGED <<fixed, local, pageUrl, page_text, storage, perPass, doneRecs>>

\* while processing_row: the statements before the load loop, or the end of run
SqlWhile ==
    /\ runner = "sql" /\ pc = "s_while"
    /\ IF cur # 0
       THEN /\ update_status_by_id(cur, "status", "processing")
            /\ StartPass(cur, FALSE)
       ELSE /\ pc' = "done"
            /\ UNCHANGED <<db, local, page_text, perRec, perPass>>
    /\ UNCHANGED <<fixed, cur, pageUrl, data, outputFile, doneRecs>>

\* if not success: the status write
SqlErrorStatus ==
    /\ runner = "sql" /\ pc = "s_err_status"
    /\ update_status_by_id(cur, "status", "error")
    /\ pc' = "s_err_text"
    /\ UNCHANGED <<fixed, cur, local, pageUrl, page_text, data, outputFile, perRec,
                   perPass, doneRecs>>

\* if not success: the error text write, then the end of the loop body
SqlErrorText ==
    /\ runner = "sql" /\ pc = "s_err_text"
    /\ update_status_by_id(cur, "error", ErrorText)
    /\ doneRecs' = doneRecs \cup {cur}
    /\ pc' = "s_get"
    /\ UNCHANGED <<fixed, cur, local, pageUrl, page_text, data, outputFile, perRec,
                   perPass>>

\* the four writes of a verified record, one commit each
SqlWriteName ==
    /\ runner = "sql" /\ pc = "s_w_name"
    /\ update_status_by_id(cur, "name", found.name)
    /\ pc' = "s_w_title"
    /\ UNCHANGED <<fixed, cur, local, pageUrl, page_text, data, outputFile, perRec,
                   perPass, doneRecs>>

SqlWriteTitle ==
    /\ runner = "sql" /\ pc = "s_w_title"
    /\ update_status_by_id(cur, "title", found.title)
    /\ pc' = "s_w_phone"
    /\ UNCHANGED <<fixed, cur, local, pageUrl, page_text, data, outputFile, perRec,
                   perPass, doneRecs>>

SqlWritePhone ==
    /\ runner = "sql" /\ pc = "s_w_phone"
    /\ update_status_by_id(cur, "phone", found.phone)
    /\ pc' = "s_w_status"
    /\ UNCHANGED <<fixed, cur, local, pageUrl, page_text, data, outputFile, perRec,
                   perPass, doneRecs>>

SqlWriteStatus ==
    /\ runner = "sql" /\ pc = "s_w_status"
    /\ update_status_by_id(cur, "status", "processed")
    /\ doneRecs' = doneRecs \cup {cur}
    /\ pc' = "s_get"
    /\ UNCHANGED <<fixed, cur, local, pageUrl, page_text, data, outputFile, perRec,
                   perPass>>

\* except Exception inside the loop: the row goes back to not_processed and
\* the loop tests the same processing_row again
SqlExcept ==
    /\ runner = "sql" /\ pc = "s_except"
    /\ update_status_by_id(cur, "status", "not_processed")
    /\ pc' = "s_while"
    /\ UNCHANGED <<fixed, cur, local, pageUrl, page_text, data, outputFile, perRec,
                   perPass, doneRecs>>

\* the process is killed: the memory of the run is gone, the files stay
Crash ==
    /\ pc \notin {"done", "crashed"}
    /\ pc' = "crashed"
    /\ cur' = 0
    /\ attempt' = 0
    /\ success' = FALSE
    /\ formatted_phone' = <<>>
    /\ found' = NotFound
    /\ pageUrl' = Blank
    /\ page_text' = <<>>
    /\ data' = [i \in Rows |-> Unset]
    /\ navLog' = <<>>
    /\ passes' = 0
    /\ loadFailed' = FALSE
    /\ translations' = 0
    /\ raisedAt' = "none"
    /\ ops' = <<>>
    /\ seen' = NotSeen
    /\ name_result' = "none"
    /\ UNCHANGED <<fixed, outputFile, db, doneRecs>>

Next ==
    \/ FileNextEntry
    \/ \E ok \in BOOLEAN : LoadPage(ok)
    \/ \E n \in {1, 2}, ok \in BOOLEAN, text \in PageTexts : NameAttempt(n, ok, text)
    \/ \E ok \in BOOLEAN : NameWait(ok)
    \/ \E ok \in BOOLEAN : NameReload(ok)
    \/ \E ok \in BOOLEAN, text \in PageTexts : CheckImageAndText(ok, text)
    \/ NameReturned
    \/ \E ok \in BOOLEAN, text \in PageTexts : ExtractPhones(ok, text)
    \/ \E ok \in BOOLEAN, text \in PageTexts : CheckJobTitle(ok, text)
    \/ \E gotoOk \in BOOLEAN, ok \in BOOLEAN, text \in TranslatedTexts :
          TranslatePage(gotoOk, ok, text)
    \/ FileSaveCheck
    \/ FileExcept
    \/ FileFinally
    \/ SqlGetFirst
    \/ SqlWhile
    \/ SqlErrorStatus
    \/ SqlErrorText
    \/ SqlWriteName
    \/ SqlWriteTitle
    \/ SqlWritePhone
    \/ SqlWriteStatus
    \/ SqlExcept
    \/ Crash

Spec == Init /\ [][Next]_vars

\* ------------------------------------------- the functions on their own
\* all strings over an alphabet up to a length
Strs(alphabet, n) == UNION {[1..k -> alphabet] : k \in 0..n}

RECURSIVE Flat(_)
Flat(l) == IF l = <<>> THEN <<>> ELSE Head(l) \o Flat(Tail(l))

\* pieces of page content: a 9-digit run and a comma, an 8-digit run and a
\* space, a spaced number, filler
Chunks ==
    { <<"1", "2", "3", "4", "5", "6", "7", "8", "9", ",">>,
      <<"1", "2", "3", "4", "5", "6", "7", "8", " ">>,
      <<"0", "4", "0", " ", "1", "2", "3", " ", "4", "5", "6", "7">>,
      <<"x">>,
      <<",", " ">> }

FindNameCalls ==
    { [fn |-> "find_name", text |-> t, first_name |-> f, last_name |-> l] :
        t \in Strs({"j", "J", "o", " "}, MaxTextLen),
        f \in {<<"J">>, <<"j", "o">>, <<"j", "j">>},
        l \in {<<"o">>, <<"O", "j">>, <<"l", "i">>} }

FormatPhoneCalls ==
    { [fn |-> "format_phone_number", text |-> t, first_name |-> <<>>, last_name |-> <<>>] :
        t \in Strs({"3", "5", "8", "4", "+"}, MaxPhoneLen) \cup {None} }

ExtractPhonesCalls ==
    { [fn |-> "extract_phone_numbers", text |-> Flat(c), first_name |-> <<>>,
       last_name |-> <<>>] :
        c \in UNION {[1..k -> Chunks] : k \in 0..MaxChunks} }

InitPure ==
    /\ runner = "file"
    /\ records = [i \in Rows |-> [first_name |-> None, last_name |-> None,
                                  phone |-> None, job_title |-> None]]
    /\ pc = "call"
    /\ Boot
    /\ dbFile = Stored
    /\ call \in FindNameCalls \cup FormatPhoneCalls \cup ExtractPhonesCalls
    /\ ret = NoRet
    /\ web = NoWeb

Return(value) ==
    /\ pc = "call"
    /\ pc' = "returned"
    /\ ret' = value
    /\ UNCHANGED <<runner, records, call, web, cur, local, pageUrl, page_text, storage,
                   perRec, perPass, doneRecs, dbFile, todo, restarts, kept>>

\* find_name with page.content() returning call.text
CallFindName ==
    /\ call.fn = "find_name"
    /\ Return(find_name(Lower(call.text), call.first_name, call.last_name))

CallFormatPhone ==
    /\ call.fn = "format_phone_number"
    /\ Return(format_phone_number(call.text))

\* extract_phone_numbers with page.content() returning call.text
CallExtractPhones ==
    /\ call.fn = "extract_phone_numbers"
    /\ Return(extract_phone_numbers(call.text))

NextPure ==
    \/ CallFindName
    \/ CallFormatPhone
    \/ CallExtractPhones

SpecPure == InitPure /\ [][NextPure]_vars

\* ------------------------------------- the same record on a static site
\* a site that never changes: whether the url loads, what the page shows, what
\* the OCR engine reads from its screenshot, what its translation shows
StaticWebs ==
    [static : {TRUE}, reachable : BOOLEAN, text : PageTexts,
     ocr : PageTexts \cup {Failed}, translation : TranslatedTexts \cup {Failed}]

\* page.content(): the page the handle is on
content == IF pageUrl.kind = "translate" THEN web.translation ELSE web.text

InitStatic ==
    /\ runner \in {"file", "sql"}
    /\ \E r \in RecordSet : records = [i \in Rows |-> r]
    /\ pc = IF runner = "file" THEN "f_loop" ELSE "s_get"
    /\ Boot
    /\ dbFile = Stored
    /\ call = NoCall
    /\ ret = NoRet
    /\ web \in StaticWebs

NextStatic ==
    \/ FileNextEntry
    \/ LoadPage(web.reachable)
    \/ \E n \in {1, 2} : NameAttempt(n, TRUE, content)
    \/ NameWait(TRUE)
    \/ NameReload(TRUE)
    \/ CheckImageAndText(web.ocr # Failed, web.ocr)
    \/ NameReturned
    \/ ExtractPhones(TRUE, content)
    \/ CheckJobTitle(TRUE, content)
    \/ TranslatePage(web.translation # Failed, web.translation # Failed, web.translation)
    \/ FileSaveCheck
    \/ FileExcept
    \/ FileFinally
    \/ SqlGetFirst
    \/ SqlWhile
    \/ SqlErrorStatus
    \/ SqlErrorText
    \/ SqlWriteName
    \/ SqlWriteTitle
    \/ SqlWritePhone
    \/ SqlWriteStatus
    \/ SqlExcept

SpecStatic == InitStatic /\ [][NextStatic]_vars

\* -------------------------------------------- starting the program again
\* the ids of S in ascending order
Sorted(S) ==
    [k \in 1..Cardinality(S) |-> CHOOSE i \in S : Cardinality({j \in S : j < i}) = k - 1]

\* a new process: nothing is left of the memory of the one before
NewProcess ==
    /\ cur' = 0
    /\ attempt' = 0
    /\ success' = FALSE
    /\ formatted_phone' = <<>>
    /\ found' = NotFound
    /\ pageUrl' = Blank
    /\ page_text' = <<>>
    /\ data' = [i \in Rows |-> Unset]
    /\ navLog' = <<>>
    /\ passes' = 0
    /\ loadFailed' = FALSE
    /\ translations' = 0
    /\ raisedAt' = "none"
    /\ ops' = <<>>
    /\ seen' = NotSeen
    /\ name_result' = "none"

\* read_excel: the output file is the workbook when it exists; rows whose
\* presence_of_fullname is filled are left out of self.data
read_excel ==
    LET rows   == IF outputFile.exists THEN DOMAIN outputFile.rows ELSE Rows
        filled == IF outputFile.exists
                  THEN {i \in rows : outputFile.rows[i].name # "unset"}
                  ELSE {}
    IN  /\ kept' = filled
        /\ todo' = Sorted(rows \ filled)

\* python check_contact.py once more: __init__ and the start of run
FileStart ==
    /\ runner = "file" /\ pc \in {"done", "crashed"}
    /\ restarts' = IF restarts < MaxRestarts THEN restarts + 1 ELSE restarts
    /\ NewProcess
    /\ read_excel
    /\ pc' = "f_loop"
    /\ UNCHANGED <<runner, records, call, ret, web, dbFile, outputFile, db, doneRecs>>

\* python check_contact_with_sql.py once more, up to DB.initialize_db_if_needed
SqlStart ==
    /\ runner = "sql" /\ pc \in {"done", "crashed"}
    /\ restarts' = IF restarts < MaxRestarts THEN restarts + 1 ELSE restarts
    /\ NewProcess
    /\ pc' = "s_init"
    /\ UNCHANGED <<runner, records, call, ret, web, dbFile, todo, kept, outputFile, db,
                   doneRecs>>

\* DB.initialize_db_if_needed: os.path.exists(DB.db_name) decides
initialize_db_if_needed ==
    /\ runner = "sql" /\ pc = "s_init"
    /\ pc' = IF dbFile.exists THEN "s_get" ELSE "s_connect"
    /\ UNCHANGED <<fixed, cur, local, pageUrl, page_text, storage, perRec, perPass,
                   doneRecs>>

\* DB.create_database: sqlite3.connect creates the file
create_database_connect ==
    /\ runner = "sql" /\ pc = "s_connect"
    /\ dbFile' = [dbFile EXCEPT !.exists = TRUE]
    /\ pc' = "s_table"
    /\ UNCHANGED <<runner, records, call, ret, web, todo, restarts, kept, cur, local,
                   pageUrl, page_text, storage, perRec, perPass, doneRecs>>

\* DB.create_database: CREATE TABLE IF NOT EXISTS contacts, committed
create_database_table ==
    /\ runner = "sql" /\ pc = "s_table"
    /\ dbFile' = [dbFile EXCEPT !.table = TRUE]
    /\ pc' = "s_store"
    /\ UNCHANGED <<runner, records, call, ret, web, todo, restarts, kept, cur, local,
                   pageUrl, page_text, storage, perRec, perPass, doneRecs>>

\* DB.read_excel_and_store: one INSERT per spreadsheet row, one commit for all
read_excel_and_store ==
    /\ runner = "sql" /\ pc = "s_store"
    /\ dbFile' = [dbFile EXCEPT !.rows = @ + NumRecords]
    /\ db' = [i \in Rows |-> [name |-> FALSE, phone |-> FALSE, title |-> FALSE,
                               status |-> "not_processed", error |-> "NULL"]]
    /\ pc' = "s_get"
    /\ UNCHANGED <<runner, records, call, ret, web, todo, restarts, kept, cur, local,
                   pageUrl, page_text, data, outputFile, perRec, perPass, doneRecs>>

\* a site with a fixed page and no working OCR or translation
ResumeWebs == {w \in StaticWebs : w.ocr = Failed /\ w.translation = Failed}

\* before the program is started for the first time: the file runner has read
\* the workbook, the relational runner is about to look for its database
InitResume ==
    /\ runner \in {"file", "sql"}
    /\ records \in [Rows -> RecordSet]
    /\ pc = IF runner = "file" THEN "f_loop" ELSE "s_init"
    /\ Boot
    /\ dbFile = NoDb
    /\ call = NoCall
    /\ ret = NoRet
    /\ web \in ResumeWebs

NextResume ==
    \/ NextStatic
    \/ Crash
    \/ FileStart
    \/ SqlStart
    \/ initialize_db_if_needed
    \/ create_database_connect
    \/ create_database_table
    \/ read_excel_and_store

SpecResume == InitResume /\ [][NextResume]_vars

\* the relational runner alone, before its first start
InitResumeSql == InitResume /\ runner = "sql"

\* the steps of the relational runner and of whoever starts it again
NextRun ==
    \/ LoadPage(web.reachable)
    \/ \E n \in {1, 2} : NameAttempt(n, TRUE, content)
    \/ NameWait(TRUE)
    \/ NameReload(TRUE)
    \/ CheckImageAndText(web.ocr # Failed, web.ocr)
    \/ NameReturned
    \/ ExtractPhones(TRUE, content)
    \/ CheckJobTitle(TRUE, content)
    \/ TranslatePage(web.translation # Failed, web.translation # Failed, web.translation)
    \/ SqlGetFirst
    \/ SqlWhile
    \/ SqlErrorStatus
    \/ SqlErrorText
    \/ SqlWriteName
    \/ SqlWriteTitle
    \/ SqlWritePhone
    \/ SqlWriteStatus
    \/ SqlExcept
    \/ SqlStart
    \/ initialize_db_if_needed
    \/ create_database_connect
    \/ create_database_table
    \/ read_excel_and_store

\* the process is killed; this happens to the first MaxRestarts processes only
CrashThenStart == restarts < MaxRestarts /\ Crash

NextResumeFair ==
    \/ NextRun
    \/ CrashThenStart

\* finitely many kills, each followed by a new start; a process that ended is
\* started again; a running process goes on, the single thread of run never
\* waits for anything but the page
SpecResumeFair == InitResumeSql /\ [][NextResumeFair]_vars /\ WF_vars(NextRun)

\* ------------------------------------------------------------ properties
AllFalse(i) ==
    IF runner = "file"
    THEN data[i].name # "Yes" /\ data[i].phone # "Yes" /\ data[i].title # "Yes"
    ELSE ~db[i].name /\ ~db[i].phone /\ ~db[i].title

\* the error text recorded for record i; the entries of the file runner have
\* no error column
ErrorTextOf(i) == IF runner = "sql" THEN db[i].error ELSE "NULL"

ErrorRecorded(i) == runner = "sql" /\ db[i].status = "error" /\ db[i].error # "NULL"

\* the result of record i is on disk
Durable(i) ==
    IF runner = "file"
    THEN outputFile.exists /\ outputFile.rows[i].name # "unset"
    ELSE db[i].status \in {"processed", "error"}

BothAbsent(i) == records[i].first_name = None /\ records[i].last_name = None

CheckPcs == {"name_read1", "name_wait", "name_reload", "name_read2", "name_ocr",
             "name_ret", "phone", "title", "translate"}

OpCount(op) == Cardinality({k \in 1..Len(ops) : ops[k] = op})

IsPrefix(a, b) == Len(a) <= Len(b) /\ SubSeq(b, 1, Len(a)) = a

\* the text attempt that read t found the current record's name
TextMatch(t) ==
    t # None /\ find_name(Lower(t), records[cur].first_name, records[cur].last_name)

\* the OCR fallback that recognised t found both name parts
OcrMatch(t) ==
    /\ t \notin {None, Failed}
    /\ ocr_name_found(t, records[cur].first_name, records[cur].last_name)

NameOrder == <<"read", "wait", "reload", "read", "screenshot">>

\* C1: in every result a run holds or has written (the entry of the file
\* runner, the saved output file, the locals and the row of the relational
\* runner), a name that is not present comes with a phone and a title that
\* are not present either.
C1_NameAbsentForcesAllAbsent ==
    /\ \A i \in Rows : data[i].name # "Yes" =>
                          data[i].phone # "Yes" /\ data[i].title # "Yes"
    /\ outputFile.exists =>
          \A i \in Rows : outputFile.rows[i].name # "Yes" =>
                             outputFile.rows[i].phone # "Yes" /\ outputFile.rows[i].title # "Yes"
    /\ \A i \in Rows : ~db[i].name => ~db[i].phone /\ ~db[i].title
    /\ ~found.name => ~found.phone /\ ~found.title

\* a record with a phone and a title whose name was not found although the
\* page read last shows its title
C1_Witness ==
    /\ pc \in {"f_save_check", "s_w_name"}
    /\ name_result = "false"
    /\ records[cur].phone # None
    /\ records[cur].job_title # None
    /\ title_on_page(Lower(page_text), records[cur].job_title)

\* C2: once a record whose two load attempts failed is finished, its result
\* has the three values false and a non-empty error text.
C2_LoadFailureIsErrorResult ==
    loadFailed /\ cur \in doneRecs => AllFalse(cur) /\ ErrorTextOf(cur) # "NULL"

\* C3: a record is navigated to at most twice, a second time only after a
\* failed first time, and no check step follows two failed navigations.
C3_AtMostTwoLoads ==
    /\ Len(navLog) <= LoadAttempts
    /\ Len(navLog) >= 2 => ~navLog[1]
    /\ loadFailed => pc \notin CheckPcs

\* C4: an unexpected exception of a record's checks ends, once handled, as an
\* error result of that record, and a run that ends has verified every record.
C4_ExceptionIsLocal ==
    /\ raisedAt # "none" /\ pc \in {"s_while", "f_finally", "done"} => ErrorRecorded(cur)
    /\ pc = "done" => doneRecs = Rows

\* C5: no record is verified twice in a run, a finished record is never
\* taken again, and the relational run ends with no row left unverified.
C5_AdvancesToDifferentRecord ==
    /\ passes <= 1
    /\ pc = "goto" => cur \notin doneRecs
    /\ pc = "done" /\ runner = "sql" =>
          \A i \in Rows : db[i].status \in {"processed", "error"}

\* C6: when a record is pulled, the result of every record completed before
\* it is on disk, so a crash loses at most one record's result.
C6_DurableBeforeNextPull ==
    /\ cur # 0 => \A i \in doneRecs \ {cur} : Durable(i)
    /\ pc = "crashed" => Cardinality({i \in doneRecs : ~Durable(i)}) <= 1

\* C7: for a record without first and last name the name check reads nothing
\* from the page and raises nothing.
C7_AbsentNameGuard ==
    cur # 0 /\ BothAbsent(cur) => ops = <<>> /\ raisedAt = "none"

\* C8: for a record without job title the title check raises nothing and
\* requests no translation.
C8_AbsentTitleGuard ==
    cur # 0 /\ records[cur].job_title = None => raisedAt # "title" /\ pc # "translate"

\* C9: the value the name check returns is true exactly when attempt 1's
\* text, attempt 2's text or the recognised text of the OCR fallback matches;
\* a name check reads the page text at most twice, reloads at most once and
\* takes at most one screenshot.
C9_NameIsOrOfAttempts ==
    /\ pc = "name_ret" =>
          /\ name_result \in {"true", "false"}
          /\ (name_result = "true") <=>
                (TextMatch(seen.a1) \/ TextMatch(seen.a2) \/ OcrMatch(seen.ocr))
    /\ OpCount("read") <= 2
    /\ OpCount("reload") <= 1
    /\ OpCount("screenshot") <= 1

\* a name check that returned true on the OCR fallback alone
C9_Witness ==
    /\ pc = "name_ret"
    /\ name_result = "true"
    /\ ~TextMatch(seen.a1) /\ ~TextMatch(seen.a2) /\ OcrMatch(seen.ocr)
    /\ OpCount("read") = 2

\* C10: the steps of a name check come in the order read, wait, reload, read,
\* screenshot; a check whose first attempt matched returns after that one
\* read, and a screenshot is taken only after two attempts that did not match.
C10_NameStepOrder ==
    /\ IsPrefix(ops, NameOrder)
    /\ pc = "name_ret" /\ TextMatch(seen.a1) => ops = <<"read">>
    /\ OpCount("screenshot") > 0 =>
          /\ seen.a1 # None /\ ~TextMatch(seen.a1)
          /\ seen.a2 # None /\ ~TextMatch(seen.a2)

\* a name check that went through every step and found nothing
C10_Witness ==
    /\ pc = "name_ret"
    /\ ops = NameOrder
    /\ name_result = "false"

\* the positions at which s occurs in t
Occ(s, t) ==
    {i \in 1..(Len(t) + 1) : /\ i + Len(s) - 1 <= Len(t)
                             /\ \A j \in 1..Len(s) : t[i + j - 1] = s[j]}

Contains(s, t) == Occ(s, t) # {}

\* s occurs in t more than once, occurrences counted as str.count counts them:
\* one after the end of the other
Twice(s, t) == \E i, j \in Occ(s, t) : j > i /\ j >= i + Len(s)

FindNameReturned == pc = "returned" /\ call.fn = "find_name"

\* C11: a text attempt reports the name found exactly when the lowercased page
\* text contains the lowercased "first last", or contains both name parts, or
\* contains one of the name parts more than once.
C11_FindNameIff ==
    FindNameReturned =>
        LET t == Lower(call.text)
            f == Lower(call.first_name)
            l == Lower(call.last_name)
        IN  ret = ( \/ Contains(f \o <<" ">> \o l, t)
                    \/ Contains(f, t) /\ Contains(l, t)
                    \/ Twice(f, t)
                    \/ Twice(l, t) )

\* the first name twice, the last name nowhere, and the name is found
C11_Witness ==
    /\ FindNameReturned
    /\ Twice(Lower(call.first_name), Lower(call.text))
    /\ ~Contains(Lower(call.last_name), Lower(call.text))
    /\ ret = TRUE

Errored == {"f_except", "s_except", "s_err_status", "s_err_text"}

NoNoNo == [name |-> "No", phone |-> "No", title |-> "No"]

\* the screenshot, the image processing or the OCR engine failed in this pass
OcrFailed == seen.ocr = Failed

\* C12: a failure of the screenshot, the image processing or the OCR engine in
\* the name fallback is not propagated: the name check returns false, no
\* exception reaches the runner, and the record completes with an ordinary
\* all-false result, not an error.
C12_OcrFailureSwallowed ==
    OcrFailed =>
        /\ name_result = "false"
        /\ raisedAt = "none"
        /\ pc \notin Errored
        /\ cur \in doneRecs =>
              IF runner = "file"
              THEN data[cur] = NoNoNo
              ELSE /\ db[cur].status = "processed" /\ db[cur].error = "NULL"
                   /\ ~db[cur].name /\ ~db[cur].phone /\ ~db[cur].title

\* a record whose OCR fallback failed has been completed
C12_Witness == OcrFailed /\ cur \in doneRecs

\* s[i..j] is a whitespace-separated token of s
IsToken(s, i, j) ==
    /\ i <= j
    /\ \A k \in i..j : s[k] # " "
    /\ i = 1 \/ s[i - 1] = " "
    /\ j = Len(s) \/ s[j + 1] = " "

AllTokensIn(s, t) ==
    \A i, j \in 1..Len(s) : IsToken(s, i, j) => Contains(SubSeq(s, i, j), t)

\* the title outcome the runner holds for the current record
TitleResult == IF runner = "file" THEN data[cur].title = "Yes" ELSE found.title

\* the name was found and the title of the current record has been decided
TitleDecided ==
    /\ pc = Persist
    /\ name_result = "true"
    /\ records[cur].job_title # None

Translated == seen.trans # None /\ seen.trans # Failed

\* C13 as stated: for a present title and a found name, title_present is true
\* exactly when the lowercased title is in the lowercased page text, or all its
\* tokens are, or the translation succeeded and the translated text, as
\* returned, contains the lowercased title.
C13_TitleIffAsStated ==
    TitleDecided =>
        LET title == Lower(records[cur].job_title)
            text  == Lower(seen.title)
        IN  TitleResult = ( \/ Contains(title, text)
                            \/ AllTokensIn(title, text)
                            \/ Translated /\ Contains(title, seen.trans) )

\* C13, amended: the same with the translated text lowercased before the
\* comparison.
C13_TitleIff ==
    TitleDecided =>
        LET title == Lower(records[cur].job_title)
            text  == Lower(seen.title)
        IN  TitleResult = ( \/ Contains(title, text)
                            \/ AllTokensIn(title, text)
                            \/ Translated /\ Contains(title, Lower(seen.trans)) )

\* the title was found only in a translation that spells it with capitals
C13_Witness ==
    /\ TitleDecided
    /\ Translated
    /\ ~Contains(Lower(records[cur].job_title), seen.trans)
    /\ TitleResult

NameResult  == IF runner = "file" THEN data[cur].name = "Yes" ELSE found.name
PhoneResult == IF runner = "file" THEN data[cur].phone = "Yes" ELSE found.phone

\* the navigation to the translated page or the read of it failed in this pass
TranslationFailed == seen.trans = Failed

\* the phone decision recomputed from the page the phone step read
PhoneExpected ==
    LET candidates == extract_phone_numbers(seen.phone)
    IN  formatted_phone # <<>> /\ Contains(formatted_phone, Join(candidates))

\* C14: a failure of the translation fallback is not propagated: the title is
\* not found, the name and phone outcomes computed before it are kept, and the
\* record is completed as processed, not as an error.
C14_TranslationFailureSwallowed ==
    TranslationFailed =>
        /\ ~TitleResult
        /\ NameResult
        /\ PhoneResult = PhoneExpected
        /\ raisedAt = "none"
        /\ pc \notin Errored
        /\ (runner = "sql" /\ cur \in doneRecs) =>
              /\ db[cur].status = "processed" /\ db[cur].error = "NULL"
              /\ db[cur].name /\ ~db[cur].title /\ db[cur].phone = PhoneExpected

\* a record whose phone was found and whose translation failed is completed
C14_Witness == TranslationFailed /\ cur \in doneRecs /\ PhoneResult

\* C15: for every record the translated page is requested at most once, and
\* only when the name was found and both the exact and the all-tokens title
\* match failed on the page.
C15_TranslationOnceAndOnlyAfterTitleMiss ==
    /\ translations <= 1
    /\ pc = "translate" =>
          /\ translations = 0
          /\ name_result = "true"
          /\ NameResult
          /\ seen.title # None
          /\ LET title == Lower(records[cur].job_title)
                 text  == Lower(seen.title)
             IN  ~Contains(title, text) /\ ~AllTokensIn(title, text)

\* the translated page has been requested for the current record
C15_Witness == translations = 1 /\ pc = Persist /\ Translated

\* the name was found and the phone of the current record has been decided
PhoneDecided ==
    /\ name_result = "true"
    /\ seen.phone # None
    /\ pc \in {"title", "translate", Persist}

NoPhone == records[cur].phone = None \/ records[cur].phone = <<>>

\* C16: when the name is found, phone_present is true exactly when the
\* normalized phone is non-empty and a substring of the ", "-joined candidates
\* extracted from the page; a record without a phone gets phone_present false
\* and its title is still evaluated.
C16_PhoneIff ==
    /\ PhoneDecided => PhoneResult = PhoneExpected
    /\ (PhoneDecided /\ NoPhone) => ~PhoneResult
    /\ (PhoneDecided /\ NoPhone /\ pc = Persist) => seen.title # None

\* a record without a phone: name found, phone not, title found
C16_Witness == PhoneDecided /\ NoPhone /\ pc = Persist /\ TitleResult /\ ~PhoneResult

FormatPhoneReturned == pc = "returned" /\ call.fn = "format_phone_number"

CountryCode == <<"3", "5", "8">>

\* C17: the normalizer gives the empty string for an absent or empty phone;
\* otherwise the digits of the input in order, without one leading "358" when
\* they start with it (a second "358" stays), and unchanged when they do not.
C17_NormalizerShape ==
    FormatPhoneReturned =>
        IF call.text = None \/ call.text = <<>>
        THEN ret = <<>>
        ELSE LET digits == SelectSeq(call.text, LAMBDA c : c \in Digits)
             IN  IF IsPrefix(CountryCode, digits)
                 THEN CountryCode \o ret = digits
                 ELSE ret = digits

\* "358358" is normalized to "358"
C17_Witness ==
    /\ FormatPhoneReturned
    /\ call.text = CountryCode \o CountryCode
    /\ ret = CountryCode

ExtractPhonesReturned == pc = "returned" /\ call.fn = "extract_phone_numbers"

\* the matches of the pattern in the page, in order, and their digits
Matches     == FindAll(call.text, 1)
DigitsOf(m) == SelectSeq(m, LAMBDA c : c \in Digits)
Surviving   == {i \in 1..Len(Matches) : Len(DigitsOf(Matches[i])) > 8}

\* C18: every candidate returned is a digit-only string longer than 8; the
\* candidates are the matches with more than 8 digits, in their order of
\* appearance, a repeated number once per appearance.
C18_CandidatesShape ==
    ExtractPhonesReturned =>
        /\ \A k \in 1..Len(ret) :
              Len(ret[k]) > 8 /\ \A j \in 1..Len(ret[k]) : ret[k][j] \in Digits
        /\ Len(ret) = Cardinality(Surviving)
        /\ \A i \in Surviving :
              ret[Cardinality({j \in Surviving : j <= i})] = DigitsOf(Matches[i])

\* a page with the same number twice and a match of 8 digits that is dropped
C18_Witness ==
    /\ ExtractPhonesReturned
    /\ Len(ret) = 2 /\ ret[1] = ret[2]
    /\ \E i \in 1..Len(Matches) : Len(DigitsOf(Matches[i])) = 8

\* what the runner holds for record i at the end of its pass
Outcome(i) ==
    IF runner = "file" THEN [name |-> data[i].name = "Yes", phone |-> data[i].phone = "Yes",
                             title |-> data[i].title = "Yes"]
    ELSE [name |-> db[i].name, phone |-> db[i].phone, title |-> db[i].title]

\* C19: the same record verified again against the same static site gets the
\* same name, phone and title outcome, whatever the earlier passes left on the
\* page handle.
C19_SameRecordSameOutcome ==
    \A i, j \in doneRecs : Outcome(i) = Outcome(j)

\* every row is verified, the last one after the handle was left on the
\* translated page, and the title was found through the translation
C19_Witness ==
    /\ doneRecs = Rows
    /\ translations = 1
    /\ \A i \in Rows : Outcome(i).name /\ Outcome(i).title

\* the pass of the current record has just ended without an exception
PassCompleted == cur \in doneRecs /\ pc \in {"f_loop", "s_get"}

\* the title decision recomputed from what the title step and the translation read
TitleExpected ==
    LET title == Lower(records[cur].job_title)
    IN  \/ Contains(title, Lower(seen.title))
        \/ AllTokensIn(title, Lower(seen.title))
        \/ Translated /\ Contains(title, Lower(seen.trans))

\* the outcome of the current record as a function of what the page did, the
\* same function for both runners
OutcomeExpected ==
    IF loadFailed \/ name_result # "true"
    THEN NotFound
    ELSE [name |-> TRUE, phone |-> PhoneExpected, title |-> TitleExpected]

\* C20: when no exception occurs, the file-backed and the relational runner
\* record the same name, phone and title outcome for a record and a page
\* behaviour ("Yes"/"No" in one, true/false in the other), all false when the
\* page cannot be loaded.
C20_RunnersAgree ==
    PassCompleted => Outcome(cur) = OutcomeExpected

\* a record for which everything was found has been completed
C20_Witness ==
    /\ PassCompleted
    /\ Outcome(cur) = [name |-> TRUE, phone |-> TRUE, title |-> TRUE]

\* C21: every page read of the name attempts, the phone extraction and the
\* title match happens after a successful navigation of this pass, while the
\* handle shows the source url of the record; once the handle shows the
\* translation of a record, no page operation of that record follows.
C21_ReadsOnOwnSourcePage ==
    /\ pc \in CheckPcs =>
          success /\ pageUrl = [kind |-> "source", rec |-> cur]
    /\ pageUrl = [kind |-> "translate", rec |-> cur] =>
          pc \notin CheckPcs \cup {"goto"}

\* a record after the first has had its name, phone and title read from the
\* page, and the earlier record is completed
C21_Witness ==
    /\ pc = "translate"
    /\ cur > 1
    /\ seen.title # None
    /\ (cur - 1) \in doneRecs

\* C24: in every state of the relational runner, between two column writes
\* too, a row with status processed holds the presence values computed for it
\* and a row with status error holds a non-empty error text.
C24_StatusAfterValues ==
    runner = "sql" =>
        /\ (cur \in Rows /\ db[cur].status = "processed") =>
              /\ db[cur].name = found.name
              /\ db[cur].phone = found.phone
              /\ db[cur].title = found.title
        /\ \A i \in Rows : db[i].status = "error" => db[i].error # "NULL"

\* the positions of DB.initialize_db_if_needed
DbInitPcs == {"s_init", "s_connect", "s_table", "s_store"}

\* the relational runner is past its database initialization
DbInitialized == runner = "sql" /\ pc \notin DbInitPcs \cup {"crashed"}

\* C22: however often the relational runner is started, also after a crash in
\* the middle of the database initialization, once the initialization is over
\* the contacts table has exactly one row per spreadsheet row.
C22_OneRowPerSpreadsheetRow ==
    DbInitialized => dbFile.table /\ dbFile.rows = NumRecords

\* the status changes a run may make
StatusMoves ==
    { <<"not_processed", "processing">>, <<"processing", "processed">>,
      <<"processing", "error">>, <<"processing", "not_processed">> }

Settled(i) == db[i].status \in {"processed", "error"}

Processing == {i \in Rows : db[i].status = "processing"}

StatusMovesOnly ==
    \A i \in Rows : db'[i].status # db[i].status =>
                        <<db[i].status, db'[i].status>> \in StatusMoves

SettledIsFinal ==
    \A i \in Rows : Settled(i) =>
        /\ db'[i].status = db[i].status
        /\ db'[i].name = db[i].name
        /\ db'[i].phone = db[i].phone
        /\ db'[i].title = db[i].title

AscendingOrder ==
    (pc = "s_get" /\ pc' = "s_while" /\ cur' # 0) =>
        /\ db[cur'].status = "not_processed"
        /\ \A j \in Rows : j < cur' => db[j].status # "not_processed"

\* C23: in the relational runner a status only moves not_processed ->
\* processing -> processed, error or back to not_processed; a processed or
\* error row keeps its status and result; the row taken is the lowest one not
\* yet processed; and at most one row has status processing.
C23_StatusLifecycle ==
    [][ runner = "sql" =>
          /\ StatusMovesOnly
          /\ SettledIsFinal
          /\ AscendingOrder
          /\ Cardinality(Processing') <= 1 ]_vars

\* C25: in the relational runner, with finitely many crashes each followed by
\* a new start, every record eventually has status processed or error for
\* good.
C25_EveryRecordSettles ==
    runner = "sql" => <>[](\A i \in Rows : Settled(i))

\* the file runner has just been started again and has read its workbook
Resumed == runner = "file" /\ restarts > 0 /\ pc = "f_loop" /\ cur = 0

\* the resumed run of the file runner has made its last save
ResumedRunSaved == runner = "file" /\ restarts > 0 /\ pc = "done"

\* C26: a file runner that resumes from an existing output file leaves out
\* exactly the rows whose name result is filled there, and after the resumed
\* run has saved, the output file holds the results of the rows completed in
\* earlier runs together with the rows handled in this run.
C26_ResumeKeepsEarlierResults ==
    /\ (Resumed /\ outputFile.exists) =>
          {todo[k] : k \in 1..Len(todo)} =
             {i \in DOMAIN outputFile.rows : outputFile.rows[i].name = "unset"}
    /\ ResumedRunSaved =>
          /\ \A i \in kept :
                i \in DOMAIN outputFile.rows /\ outputFile.rows[i].name # "unset"
          /\ \A k \in 1..Len(todo) : todo[k] \in DOMAIN outputFile.rows
====
